---- MODULE Spec2Model ----
(***************************************************************************)
(* Model of the Stack Overflow MCP server's rate-limited fetch             *)
(* orchestrator: StackExchangeAPI._check_rate_limit (sliding window),      *)
(* StackExchangeAPI._with_rate_limit (two-budget retrying executor) and    *)
(* the fan-out of advanced_search / get_question.                          *)
(*                                                                         *)
(* Coroutines run on one asyncio event loop: a task only gives up control  *)
(* at an await (the HTTP request inside the operation, asyncio.sleep).     *)
(* Every action below is therefore one run of a task from the point where  *)
(* it resumes to its next await, or to the end of the call.                *)
(*                                                                         *)
(* Time is the wall clock in units of RETRY_AFTER_MS-sized ticks.          *)
(***************************************************************************)
EXTENDS Integers, Sequences, FiniteSets, TLC

\* ---------------------------------------------------------------- bounds
\* The clock stops advancing at MaxTime.
MaxTime == 3
\* Largest `retries` / `attempts` argument passed to _with_rate_limit.
MaxRetries == 2
MaxAttempts == 2
\* Longest item list of a search response, of an answers response and of a
\* comments response.
MaxItems == 1
MaxAnswers == 1
MaxComments == 1

\* ------------------------------------------------- configuration (env.py)
\* env.py reads these from the environment (defaults 30 / 60000 / 2000);
\* the model runs the code with a small ceiling, a window of three backoff
\* intervals and a backoff of one tick.
MAX_REQUEST_PER_WINDOW == 2
RATE_LIMIT_WINDOW_MS == 3
RETRY_AFTER_MS == 1

\* The concurrent tool invocations (asyncio tasks) on the one client.
Procs == {1, 2}

VARIABLES
    now,                 \* time.time() * 1000
    request_timestamps,  \* StackExchangeAPI.request_timestamps
    task,                \* per asyncio task: position and locals of the call it runs
    down,                \* upstream: the endpoints that answer every request with HTTP 500
    hist,                \* observer: what the direct calls of _check_rate_limit did
    admitted             \* observer: the admissions of the last window, oldest first

vars == <<now, request_timestamps, task, down, hist, admitted>>

\* ------------------------------------------------------------ data values
\* A decoded JSON response: a dict that has an "items" list or has none.
NoData == [has_items |-> FALSE, items |-> <<>>]
Data(items) == [has_items |-> TRUE, items |-> items]
\* data.get("items", [])
Items(data) == IF data.has_items THEN data.items ELSE <<>>

\* An outcome of an operation or of a whole call: a returned value or a
\* raised exception.  `call` is the invocation of the operation that raised
\* it (exceptions are objects: two 429 responses are two different failures).
NoOutcome == [kind |-> "none", status |-> 0, id |-> 0, value |-> NoData, call |-> 0]
Returned(v) == [kind |-> "ok", status |-> 0, id |-> 0, value |-> v, call |-> 0]
\* response.raise_for_status() on a 4xx/5xx response
HTTPStatusError(s, c) ==
    [kind |-> "HTTPStatusError", status |-> s, id |-> 0, value |-> NoData, call |-> c]
\* any exception of the request that is not an httpx.HTTPStatusError
RequestError(c) == [kind |-> "RequestError", status |-> 0, id |-> 0, value |-> NoData, call |-> c]
\* raise Exception("Maximum rate limiting attempts exceeded")
RateLimitExceeded ==
    [kind |-> "Exception", status |-> 0, id |-> 0, value |-> NoData, call |-> 0]
\* raise ValueError(f"Question with ID {question_id} not found")
NotFound(qid) == [kind |-> "ValueError", status |-> 0, id |-> qid, value |-> NoData, call |-> 0]
\* a dataclass __init__ called with a keyword it does not declare
TypeError == [kind |-> "TypeError", status |-> 0, id |-> 0, value |-> NoData, call |-> 0]

\* ------------------------------------------------------------ Rate Limiter
\* The timestamps the list comprehension keeps.
InWindow(ts, t) == SelectSeq(ts, LAMBDA x : t - x < RATE_LIMIT_WINDOW_MS)

check_rate_limit_off_by_one(ts, t) ==
    LET live == InWindow(ts, t) IN
    IF Len(live) > MAX_REQUEST_PER_WINDOW
    THEN [ok |-> FALSE, ts |-> live]
    ELSE [ok |-> TRUE, ts |-> Append(live, t)]

check_rate_limit_rejects_early(ts, t) ==
    LET live == InWindow(ts, t) IN
    IF Len(live) + 1 >= MAX_REQUEST_PER_WINDOW
    THEN [ok |-> FALSE, ts |-> live]
    ELSE [ok |-> TRUE, ts |-> Append(live, t)]

check_rate_limit_no_evict(ts, t) ==
    IF Len(ts) >= MAX_REQUEST_PER_WINDOW
    THEN [ok |-> FALSE, ts |-> ts]
    ELSE [ok |-> TRUE, ts |-> Append(ts, t)]

check_rate_limit_records_reject(ts, t) ==
    LET live == InWindow(ts, t) IN
    IF Len(live) >= MAX_REQUEST_PER_WINDOW
    THEN [ok |-> FALSE, ts |-> Append(Tail(live), t)]
    ELSE [ok |-> TRUE, ts |-> Append(live, t)]

\* _check_rate_limit at time t on the list ts: the answer and the new list.
check_rate_limit(ts, t) ==
    LET live == InWindow(ts, t) IN
    IF Len(live) >= MAX_REQUEST_PER_WINDOW
    THEN [ok |-> FALSE, ts |-> live]
    ELSE [ok |-> TRUE, ts |-> Append(live, t)]

\* --------------------------------------------------------------- observer
\* What the latest call of _check_rate_limit did, and the one before it.
\*   n        calls so far, counted up to MAX_REQUEST_PER_WINDOW + 2
\*   first    time of the first call (the list was empty before it)
\*   time/ok  time and answer of the latest call
\*   oldest   oldest timestamp left in the list after the latest call, -1 if none
\*   size     length of the list after the latest call
\*   prev*    the same for the call before the latest one
NoHist == [n |-> 0, first |-> -1, time |-> -1, ok |-> TRUE, oldest |-> -1, size |-> 0,
           prevTime |-> -1, prevOk |-> TRUE, prevOldest |-> -1, prevSize |-> 0]

Observe(h, check, ts, tm) ==
    IF check = "none" THEN h
    ELSE [n |-> IF h.n > MAX_REQUEST_PER_WINDOW + 1 THEN h.n ELSE h.n + 1,
          first |-> IF h.n = 0 THEN tm ELSE h.first,
          time |-> tm,
          ok |-> (check = "admitted"),
          oldest |-> IF ts = <<>> THEN -1 ELSE Head(ts),
          size |-> Len(ts),
          prevTime |-> h.time, prevOk |-> h.ok, prevOldest |-> h.oldest, prevSize |-> h.size]

\* ------------------------------------------------------------------ tasks
\* pc: "idle"          no call running
\*     "local_wait"    in asyncio.sleep after a local rejection        (api.py:72)
\*     "in_flight"     awaiting func(), the HTTP request               (api.py:76)
\*     "upstream_wait" in asyncio.sleep after an HTTP 429              (api.py:80)
\*     "done"          the call has returned or raised: `outcome`
\* retries, attempts   the arguments of the current frame of _with_rate_limit
\* retries0, attempts0 the arguments the call was entered with          (observer)
\* opCalls             invocations of func by this call                 (observer)
\* rejects             local rejections of this call, one sleep each    (observer)
\* throttled           HTTP 429 responses this call received            (observer)
\* backoffs            sleeps this call took after a 429                (observer)
\* opResult            what the latest invocation of func produced      (observer)
\* outcome             what the current call of _with_rate_limit produced
\* ctx                 the caller: "execute" (a bare call of _with_rate_limit),
\*                     "advanced_search" or "get_question"
\* stage               the request the caller is waiting for: "search", "question",
\*                     "answers", "question_comments", "answer_comments"
\* include_comments, min_score, question_id    the caller's arguments
\* items, idx          data.get("items", []) of the search and the loop position
\* question, answers, k, question_comments, answers_comments, results
\*                     the caller's locals
\* ret                 what the caller's call produced
\* What a tool of server.py ends with: the string it returns or the
\* Error it raises (label + str(e)).
NoToolOutcome ==
    [kind |-> "none", label |-> "", message |-> [text |-> "", arg |-> 0], text |-> "",
     body |-> <<>>]

IdleTask == [pc |-> "idle", ctx |-> "none", retries |-> 0, attempts |-> 0, wake |-> 0,
             retries0 |-> 0, attempts0 |-> 0, opCalls |-> 0, rejects |-> 0,
             throttled |-> 0, backoffs |-> 0, opResult |-> NoOutcome, outcome |-> NoOutcome,
             stage |-> "none", include_comments |-> FALSE, min_score |-> [some |-> FALSE, v |-> 0],
             question_id |-> 0, items |-> <<>>, idx |-> 0, question |-> <<>>, answers |-> <<>>,
             k |-> 0, question_comments |-> <<>>, answers_comments |-> <<>>, results |-> <<>>,
             ret |-> NoOutcome, tool |-> "none", response_format |-> "markdown",
             out |-> NoToolOutcome]

NewCall(t, r, a) ==
    [t EXCEPT !.retries = r, !.attempts = a, !.retries0 = r, !.attempts0 = a,
              !.opCalls = 0, !.rejects = 0, !.throttled = 0, !.backoffs = 0,
              !.opResult = NoOutcome, !.outcome = NoOutcome]

\* ------------------------------------------------ Retrying Fetch Executor
with_rate_limit_sleeps_window(t, ts, tm) ==
    IF t.attempts <= 0
    THEN [t |-> [t EXCEPT !.pc = "raised", !.wake = 0, !.outcome = RateLimitExceeded],
          ts |-> ts, check |-> "none"]
    ELSE LET c == check_rate_limit(ts, tm) IN
         IF ~c.ok
         THEN [t |-> [t EXCEPT !.pc = "local_wait", !.wake = tm + RATE_LIMIT_WINDOW_MS,
                               !.rejects = @ + 1],
               ts |-> c.ts, check |-> "rejected"]
         ELSE [t |-> [t EXCEPT !.pc = "in_flight", !.wake = 0, !.opCalls = @ + 1],
               ts |-> c.ts, check |-> "admitted"]

with_rate_limit_checks_first(t, ts, tm) ==
    LET c == check_rate_limit(ts, tm) IN
    IF t.attempts <= 0
    THEN [t |-> [t EXCEPT !.pc = "raised", !.wake = 0, !.outcome = RateLimitExceeded],
          ts |-> c.ts, check |-> IF c.ok THEN "admitted" ELSE "rejected"]
    ELSE IF ~c.ok
    THEN [t |-> [t EXCEPT !.pc = "local_wait", !.wake = tm + RETRY_AFTER_MS, !.rejects = @ + 1],
          ts |-> c.ts, check |-> "rejected"]
    ELSE [t |-> [t EXCEPT !.pc = "in_flight", !.wake = 0, !.opCalls = @ + 1],
          ts |-> c.ts, check |-> "admitted"]

\* _with_rate_limit from its entry to its first await (api.py:64-76):
\* the attempts guard, the admission check, then either the backoff sleep
\* or the invocation of func.  Every caller passes an integer for retries,
\* so the `retries is None` branch (api.py:64-65) is never taken.
with_rate_limit(t, ts, tm) ==
    IF t.attempts <= 0
    THEN [t |-> [t EXCEPT !.pc = "raised", !.wake = 0, !.outcome = RateLimitExceeded],
          ts |-> ts, check |-> "none"]
    ELSE LET c == check_rate_limit(ts, tm) IN
         IF ~c.ok
         THEN [t |-> [t EXCEPT !.pc = "local_wait", !.wake = tm + RETRY_AFTER_MS,
                               !.rejects = @ + 1],
               ts |-> c.ts, check |-> "rejected"]
         ELSE [t |-> [t EXCEPT !.pc = "in_flight", !.wake = 0, !.opCalls = @ + 1],
               ts |-> c.ts, check |-> "admitted"]

\* The recursive call after the local backoff sleep (api.py:73).
retry_after_local_wait_keeps_attempts(t) == t

retry_after_local_wait_spends_retries(t) == [t EXCEPT !.attempts = @ - 1, !.retries = @ - 1]

retry_after_local_wait(t) == [t EXCEPT !.attempts = @ - 1]

\* The recursive call after the 429 backoff sleep (api.py:81).
retry_after_429_spends_attempts(t) == [t EXCEPT !.retries = @ - 1, !.attempts = @ - 1]

retry_after_429(t) == [t EXCEPT !.retries = @ - 1]

on_response_retries_any_status(t, o, tm) ==
    LET t1 == [t EXCEPT !.opResult = o,
                        !.throttled = IF o.kind = "HTTPStatusError" /\ o.status = 429
                                      THEN @ + 1 ELSE @] IN
    IF o.kind = "ok"
    THEN [t1 EXCEPT !.pc = "returned", !.outcome = o]
    ELSE IF o.kind = "HTTPStatusError" /\ t.retries > 0
    THEN [t1 EXCEPT !.pc = "upstream_wait", !.wake = tm + RETRY_AFTER_MS, !.backoffs = @ + 1]
    ELSE [t1 EXCEPT !.pc = "raised", !.outcome = o]

on_response_429_gives_up_early(t, o, tm) ==
    LET t1 == [t EXCEPT !.opResult = o,
                        !.throttled = IF o.kind = "HTTPStatusError" /\ o.status = 429
                                      THEN @ + 1 ELSE @] IN
    IF o.kind = "ok"
    THEN [t1 EXCEPT !.pc = "returned", !.outcome = o]
    ELSE IF o.kind = "HTTPStatusError" /\ t.retries > 1 /\ o.status = 429
    THEN [t1 EXCEPT !.pc = "upstream_wait", !.wake = tm + RETRY_AFTER_MS, !.backoffs = @ + 1]
    ELSE [t1 EXCEPT !.pc = "raised", !.outcome = o]

\* The try/except around `await func(...)` when func finishes with o
\* (api.py:75-82): a result is returned; an httpx.HTTPStatusError with
\* status 429 and retries left starts the backoff sleep; every other
\* exception leaves the frame.
on_response(t, o, tm) ==
    LET t1 == [t EXCEPT !.opResult = o,
                        !.throttled = IF o.kind = "HTTPStatusError" /\ o.status = 429
                                      THEN @ + 1 ELSE @] IN
    IF o.kind = "ok"
    THEN [t1 EXCEPT !.pc = "returned", !.outcome = o]
    ELSE IF o.kind = "HTTPStatusError" /\ t.retries > 0 /\ o.status = 429
    THEN [t1 EXCEPT !.pc = "upstream_wait", !.wake = tm + RETRY_AFTER_MS, !.backoffs = @ + 1]
    ELSE [t1 EXCEPT !.pc = "raised", !.outcome = o]

\* ------------------------------------------------------- domain entities
\* Optional[int]
None == [some |-> FALSE, v |-> 0]
Some(n) == [some |-> TRUE, v |-> n]

\* The fields the dataclasses declare (types.py).
QuestionFields == {"question_id", "title", "body", "score", "answer_count", "is_answered",
                   "accepted_answer_id", "creation_date", "tags", "link"}
AnswerFields == {"answer_id", "question_id", "score", "is_accepted", "body",
                 "creation_date", "link"}
CommentFields == {"comment_id", "post_id", "score", "body", "creation_date"}

\* The generated __init__ of a dataclass: a keyword that is not a declared
\* field raises TypeError, otherwise the object holds the keywords.
Dataclass(fields, kwargs) == [ok |-> DOMAIN kwargs \subseteq fields, obj |-> kwargs]

\* The keywords the mappings pass.  An upstream record of the model carries
\* its identifier and, for a question, possibly a score; every other key is
\* missing and .get(key, default) yields the default.
QuestionKwargs(qd) ==
    [question_id |-> qd.question_id, title |-> "", body |-> "",
     score |-> IF qd.has_score THEN qd.score ELSE 0,
     answer_count |-> 0, is_answered |-> FALSE, accepted_answer_id |-> "None",
     creation_date |-> 0, last_activity_date |-> 0, view_count |-> 0, tags |-> <<>>,
     link |-> "", is_closed |-> FALSE, owner |-> "None"]

AnswerKwargs(ad) ==
    [answer_id |-> ad.answer_id, question_id |-> "None", score |-> 0, is_accepted |-> FALSE,
     body |-> "", creation_date |-> 0, last_activity_date |-> 0, link |-> "", owner |-> "None"]

CommentKwargs(cd) ==
    [comment_id |-> cd.comment_id, post_id |-> "None", score |-> 0, body |-> "",
     creation_date |-> 0, owner |-> "None"]

StackOverflowQuestion(qd) == Dataclass(QuestionFields, QuestionKwargs(qd))

\* The mapping loops of fetch_answers and fetch_comments: the list of
\* entities, or the TypeError of the first constructor call that raises.
MapAnswers(items) ==
    [ok |-> \A i \in 1..Len(items) : Dataclass(AnswerFields, AnswerKwargs(items[i])).ok,
     objs |-> [i \in 1..Len(items) |-> AnswerKwargs(items[i])]]

MapComments(items) ==
    [ok |-> \A i \in 1..Len(items) : Dataclass(CommentFields, CommentKwargs(items[i])).ok,
     objs |-> [i \in 1..Len(items) |-> CommentKwargs(items[i])]]

SearchResult(q, as, cs) == [question |-> q, answers |-> as, comments |-> cs]
NoComments == [present |-> FALSE, question |-> <<>>, answers |-> <<>>]
SearchResultComments(qc, ac) == [present |-> TRUE, question |-> qc, answers |-> ac]

\* ---------------------------------------------------- Remote Knowledge Client
\* retries=3, attempts=10 of _with_rate_limit; retries=3 of advanced_search
DefaultRetries == 3
DefaultAttempts == 10

Fail(t, e) == [t EXCEPT !.pc = "done", !.ret = e]
Finish(t, v) == [t EXCEPT !.pc = "done", !.ret = Returned(v)]
NoCheck(t, ts) == [t |-> t, ts |-> ts, check |-> "none"]

\* `await self._with_rate_limit(_do_fetch)` of one of the four client
\* operations, up to its first await.
StartFetch(t, stage, r, ts, tm) ==
    LET res == with_rate_limit(NewCall([t EXCEPT !.stage = stage], r, DefaultAttempts), ts, tm)
    IN IF res.t.pc = "raised" THEN [res EXCEPT !.t = Fail(res.t, res.t.outcome)] ELSE res

\* min_score is not None and question_data.get("score", 0) < min_score
Filtered_never(qd, min_score) == FALSE

Filtered(qd, min_score) ==
    min_score.some /\ (IF qd.has_score THEN qd.score ELSE 0) < min_score.v

\* The for loop of advanced_search from item t.idx on (api.py:207-228,252):
\* skip the filtered items, build the question, start fetching its answers;
\* return the results when no item is left.
search_loop(t, ts, tm) ==
    LET left == {i \in t.idx..Len(t.items) : ~Filtered(t.items[i], t.min_score)} IN
    IF left = {}
    THEN NoCheck(Finish(t, t.results), ts)
    ELSE LET i == CHOOSE j \in left : \A l \in left : j <= l
             q == StackOverflowQuestion(t.items[i]) IN
         IF ~q.ok
         THEN NoCheck(Fail(t, TypeError), ts)
         ELSE StartFetch([t EXCEPT !.idx = i, !.question = q.obj], "answers",
                         DefaultRetries, ts, tm)

\* The SearchResult of the current question is complete: advanced_search
\* appends it and goes on with the next item (api.py:246-250), get_question
\* returns it (api.py:466-470).
append_result(t, comments, ts, tm) ==
    LET r == SearchResult(t.question, t.answers, comments) IN
    IF t.ctx = "get_question"
    THEN NoCheck(Finish(t, r), ts)
    ELSE search_loop([t EXCEPT !.results = Append(@, r), !.idx = @ + 1], ts, tm)

\* for answer in answers: fetch_comments(answer.answer_id), from answer t.k on
\* (api.py:237-244, 458-464).
comments_loop(t, ts, tm) ==
    IF t.k <= Len(t.answers)
    THEN StartFetch(t, "answer_comments", DefaultRetries, ts, tm)
    ELSE append_result(t, SearchResultComments(t.question_comments, t.answers_comments), ts, tm)

\* fetch_answers has its data (api.py:334-350), then api.py:230-233 / 453-455.
after_answers(t, data, ts, tm) ==
    LET m == MapAnswers(Items(data)) IN
    IF ~m.ok THEN NoCheck(Fail(t, TypeError), ts)
    ELSE LET t1 == [t EXCEPT !.answers = m.objs] IN
         IF t.include_comments
         THEN StartFetch(t1, "question_comments", DefaultRetries, ts, tm)
         ELSE append_result(t1, NoComments, ts, tm)

\* fetch_comments of the question has its data (api.py:382-395), then api.py:235-237.
after_question_comments(t, data, ts, tm) ==
    LET m == MapComments(Items(data)) IN
    IF ~m.ok THEN NoCheck(Fail(t, TypeError), ts)
    ELSE comments_loop([t EXCEPT !.question_comments = m.objs, !.answers_comments = <<>>,
                                 !.k = 1], ts, tm)

\* fetch_comments of answer t.k has its data, then api.py:239 / 459.
after_answer_comments(t, data, ts, tm) ==
    LET m == MapComments(Items(data)) IN
    IF ~m.ok THEN NoCheck(Fail(t, TypeError), ts)
    ELSE comments_loop([t EXCEPT !.answers_comments = (t.answers[t.k].answer_id :> m.objs) @@ @,
                                 !.k = @ + 1], ts, tm)

\* get_question has its data (api.py:430-451).
after_question(t, data, ts, tm) ==
    IF Items(data) = <<>>
    THEN NoCheck(Fail(t, NotFound(t.question_id)), ts)
    ELSE LET t1 == [t EXCEPT !.items = Items(data), !.idx = 1]
             q == StackOverflowQuestion(Items(data)[1]) IN
         IF ~q.ok
         THEN NoCheck(Fail(t1, TypeError), ts)
         ELSE StartFetch([t1 EXCEPT !.question = q.obj], "answers", DefaultRetries, ts, tm)

\* A frame of _with_rate_limit has returned or raised: the caller goes on
\* up to its next await.  An exception is caught nowhere in api.py.
Deliver(t, ts, tm) ==
    IF t.ctx = "execute" THEN NoCheck([t EXCEPT !.pc = "done", !.ret = t.outcome], ts)
    ELSE IF t.pc = "raised" THEN NoCheck(Fail(t, t.outcome), ts)
    ELSE CASE t.stage = "search" ->
                search_loop([t EXCEPT !.items = Items(t.outcome.value), !.idx = 1,
                                      !.results = <<>>], ts, tm)
           [] t.stage = "question" -> after_question(t, t.outcome.value, ts, tm)
           [] t.stage = "answers" -> after_answers(t, t.outcome.value, ts, tm)
           [] t.stage = "question_comments" -> after_question_comments(t, t.outcome.value, ts, tm)
           [] t.stage = "answer_comments" -> after_answer_comments(t, t.outcome.value, ts, tm)

\* Run on from a frame state to the task's next await.
Resume(res, tm) ==
    IF res.t.pc \in {"returned", "raised"} THEN Deliver(res.t, res.ts, tm) ELSE res

\* ---------------------------------------------------------------- upstream
SeqsUpTo(S, n) == UNION {[1..k -> S] : k \in 0..n}

QuestionIds == {1, 2}
AnswerIds == {11, 12}
CommentIds == {21}
Scores == {-1, 1}
QuestionItems == [question_id : QuestionIds, has_score : {TRUE}, score : Scores]
                 \cup [question_id : QuestionIds, has_score : {FALSE}, score : {0}]
AnswerItems == [answer_id : AnswerIds]
CommentItems == [comment_id : CommentIds]

\* The endpoint a request goes to.
Endpoint(stage) ==
    CASE stage = "search" -> "search"
      [] stage = "question" -> "questions"
      [] stage = "answers" -> "answers"
      [] stage \in {"question_comments", "answer_comments"} -> "comments"
      [] OTHER -> "none"

\* The bodies a 2xx response can carry.
Payloads(stage) ==
    CASE stage \in {"search", "question"} ->
            {NoData} \cup {Data(s) : s \in SeqsUpTo(QuestionItems, MaxItems)}
      [] stage = "answers" -> {NoData} \cup {Data(s) : s \in SeqsUpTo(AnswerItems, MaxAnswers)}
      [] stage \in {"question_comments", "answer_comments"} ->
            {NoData} \cup {Data(s) : s \in SeqsUpTo(CommentItems, MaxComments)}
      [] OTHER -> {NoData, Data(<<>>)}

\* What invocation c of the operation can end with.
Responses(stage, c) ==
    IF Endpoint(stage) \in down
    THEN {HTTPStatusError(500, c)}
    ELSE {Returned(d) : d \in Payloads(stage)}
         \cup {HTTPStatusError(429, c), HTTPStatusError(500, c), RequestError(c)}

\* ------------------------------------------------------------- formatter
\* str(e) of the exceptions: the literal of api.py:68, the f-string of
\* api.py:431 with the id, httpx's message that names the status, the
\* message of the dataclass __init__.
Str_same_message(e) == [text |-> "request failed", arg |-> 0]

Str(e) ==
    CASE e.kind = "Exception" -> [text |-> "Maximum rate limiting attempts exceeded", arg |-> 0]
      [] e.kind = "ValueError" -> [text |-> "Question with ID {question_id} not found", arg |-> e.id]
      [] e.kind = "HTTPStatusError" -> [text |-> "HTTPStatusError", arg |-> e.status]
      [] e.kind = "RequestError" -> [text |-> "RequestError", arg |-> 0]
      [] e.kind = "TypeError" -> [text |-> "got an unexpected keyword argument", arg |-> 0]
      [] OTHER -> [text |-> e.kind, arg |-> 0]

\* One result of the markdown loop (formatter.py:39-69).
Render(r) ==
    [title |-> r.question.title, score |-> r.question.score,
     answer_count |-> r.question.answer_count, answers |-> Len(r.answers),
     question_comments |-> IF r.comments.present THEN Len(r.comments.question) ELSE 0,
     link |-> r.question.link]

\* format_response(results, format_type).  The "json" branch returns the
\* dump before the test for an empty list; DataClassJSONEncoder.default
\* looks for the attribute "dataclass_fields__", which no object has, so a
\* SearchResult in the list makes json.dumps raise TypeError.
format_response(results, format_type) ==
    IF format_type = "json"
    THEN IF results = <<>>
         THEN [ok |-> TRUE, text |-> "[]", body |-> <<>>]
         ELSE [ok |-> FALSE, text |-> "Object of type SearchResult is not JSON serializable",
               body |-> <<>>]
    ELSE IF results = <<>>
    THEN [ok |-> TRUE, text |-> "No results found.", body |-> <<>>]
    ELSE [ok |-> TRUE, text |-> "markdown",
          body |-> [i \in DOMAIN results |-> Render(results[i])]]

\* ------------------------------------------------------------ Tool Surface
Tools == {"search_by_query", "search_by_error", "get_question", "analyze_stack_trace"}

\* The prefix of the Error each tool raises.
ToolLabel(tool) ==
    CASE tool \in {"search_by_query", "search_by_error"} -> "Failed to search Stack Overflow: "
      [] tool = "get_question" -> "Failed to fetch Stack Overflow question: "
      [] tool = "analyze_stack_trace" -> "Failed to analyze stack trace: "
      [] OTHER -> ""

\* raise Error(f"Failed to ...: {str(e)}")
ToolError(tool, message) ==
    [kind |-> "Error", label |-> ToolLabel(tool), message |-> message, text |-> "",
     body |-> <<>>]

\* The rest of a tool's try block once the api call is over, and its except
\* clause: `return format_response(...)`, or `except Exception as e: raise
\* Error(...)` for an exception of the api call or of format_response.
tool_return_swallows_failure(t) ==
    IF t.ret.kind # "ok"
    THEN [kind |-> "string", label |-> "", message |-> [text |-> "", arg |-> 0],
          text |-> "No results found.", body |-> <<>>]
    ELSE LET f == format_response(IF t.tool = "get_question" THEN <<t.ret.value>>
                                  ELSE t.ret.value, t.response_format) IN
         IF ~f.ok THEN ToolError(t.tool, [text |-> f.text, arg |-> 0])
         ELSE [kind |-> "string", label |-> "", message |-> [text |-> "", arg |-> 0],
               text |-> f.text, body |-> f.body]

tool_return(t) ==
    IF t.ret.kind # "ok"
    THEN ToolError(t.tool, Str(t.ret))
    ELSE LET f == format_response(IF t.tool = "get_question" THEN <<t.ret.value>>
                                  ELSE t.ret.value, t.response_format) IN
         IF ~f.ok THEN ToolError(t.tool, [text |-> f.text, arg |-> 0])
         ELSE [kind |-> "string", label |-> "", message |-> [text |-> "", arg |-> 0],
               text |-> f.text, body |-> f.body]

\* The api call of a tool is over: the tool runs to its end without another
\* await.  A call that no tool made is left to its caller.
ToolFinish(t) ==
    IF t.tool # "none" /\ t.pc = "done" THEN [t EXCEPT !.out = tool_return(t)] ELSE t

\* ----------------------------------------------------------------- actions
Init ==
    /\ now = 0
    /\ request_timestamps = <<>>
    /\ task = [p \in Procs |-> IdleTask]
    /\ down = {}
    /\ hist = NoHist
    /\ admitted = <<>>

InitClient ==
    /\ now = 0
    /\ request_timestamps = <<>>
    /\ task = [p \in Procs |-> IdleTask]
    /\ down \in SUBSET {"answers", "comments"}
    /\ hist = NoHist
    /\ admitted = <<>>

\* Task p has run to its next await with result res.
Step(p, res) ==
    /\ task' = [task EXCEPT ![p] = ToolFinish(res.t)]
    /\ request_timestamps' = res.ts
    /\ admitted' = IF res.check = "admitted" THEN Append(admitted, now) ELSE admitted
    /\ UNCHANGED <<now, down, hist>>

\* The wall clock advances.  The observer forgets the admissions that no
\* interval of one window length ending now or later can contain.
Tick ==
    /\ now < MaxTime
    /\ now' = now + 1
    /\ admitted' = SelectSeq(admitted, LAMBDA x : now' - x < RATE_LIMIT_WINDOW_MS)
    /\ UNCHANGED <<request_timestamps, task, down, hist>>

\* A direct call of _check_rate_limit, by any caller.
Admit ==
    /\ LET c == check_rate_limit(request_timestamps, now) IN
         /\ request_timestamps' = c.ts
         /\ hist' = Observe(hist, IF c.ok THEN "admitted" ELSE "rejected", c.ts, now)
         /\ admitted' = IF c.ok THEN Append(admitted, now) ELSE admitted
    /\ UNCHANGED <<now, task, down>>

\* Task p calls _with_rate_limit(func, retries=r, attempts=a).
Execute(p, r, a) ==
    /\ task[p].pc = "idle"
    /\ Step(p, Resume(with_rate_limit(NewCall([task[p] EXCEPT !.ctx = "execute"], r, a),
                                      request_timestamps, now), now))

\* Task p calls advanced_search(include_comments=inc, min_score=ms), as the
\* search tools do through search_by_query (api.py:136-204).
AdvancedSearch(p, inc, ms) ==
    /\ task[p].pc = "idle"
    /\ Step(p, StartFetch([task[p] EXCEPT !.ctx = "advanced_search", !.include_comments = inc,
                                          !.min_score = ms],
                          "search", DefaultRetries, request_timestamps, now))

\* Task p calls get_question(qid, include_comments=inc) (api.py:410-428).
GetQuestion(p, qid, inc) ==
    /\ task[p].pc = "idle"
    /\ Step(p, StartFetch([task[p] EXCEPT !.ctx = "get_question", !.include_comments = inc,
                                          !.question_id = qid],
                          "question", DefaultRetries, request_timestamps, now))

\* The request of task p finishes with o.
Respond(p, o) ==
    /\ task[p].pc = "in_flight"
    /\ o \in Responses(task[p].stage, task[p].opCalls)
    /\ Step(p, Resume([t |-> on_response(task[p], o, now), ts |-> request_timestamps,
                       check |-> "none"], now))

\* The sleep after a local rejection is over: the recursive call.
WakeLocal(p) ==
    /\ task[p].pc = "local_wait"
    /\ now >= task[p].wake
    /\ Step(p, Resume(with_rate_limit(retry_after_local_wait(task[p]), request_timestamps, now),
                      now))

\* The sleep after an HTTP 429 is over: the recursive call.
Wake429(p) ==
    /\ task[p].pc = "upstream_wait"
    /\ now >= task[p].wake
    /\ Step(p, Resume(with_rate_limit(retry_after_429(task[p]), request_timestamps, now), now))

\* The caller of task p has taken the result; the task is free for the next call.
Return(p) ==
    /\ task[p].pc = "done"
    /\ task' = [task EXCEPT ![p] = IdleTask]
    /\ UNCHANGED <<now, request_timestamps, down, hist, admitted>>

Next ==
    \/ Tick
    \/ \E p \in Procs, r \in 0..MaxRetries, a \in 0..MaxAttempts : Execute(p, r, a)
    \/ \E p \in Procs : \E o \in Responses(task[p].stage, task[p].opCalls) : Respond(p, o)
    \/ \E p \in Procs : WakeLocal(p)
    \/ \E p \in Procs : Wake429(p)
    \/ \E p \in Procs : Return(p)

Spec == Init /\ [][Next]_vars

\* The Rate Limiter alone, called at arbitrary times.
NextLimiter == Tick \/ Admit

SpecLimiter == Init /\ [][NextLimiter]_vars

\* The client operations, one invocation at a time.
ClientProcs == {1}

NextClient ==
    \/ Tick
    \/ \E p \in ClientProcs, inc \in BOOLEAN, ms \in {None, Some(0), Some(1)} : AdvancedSearch(p, inc, ms)
    \/ \E p \in ClientProcs, qid \in QuestionIds, inc \in BOOLEAN : GetQuestion(p, qid, inc)
    \/ \E p \in ClientProcs : \E o \in Responses(task[p].stage, task[p].opCalls) : Respond(p, o)
    \/ \E p \in ClientProcs : WakeLocal(p)
    \/ \E p \in ClientProcs : Wake429(p)
    \/ \E p \in ClientProcs : Return(p)

SpecClient == InitClient /\ [][NextClient]_vars

\* ================================================================== claims
Exec(p) == task[p].ctx = "execute"

\* C1: starting from the empty list, as long as the calls of
\* _check_rate_limit all fall within one window length of the first call,
\* calls 1..MAX_REQUEST_PER_WINDOW are admitted and call
\* MAX_REQUEST_PER_WINDOW + 1 is rejected.
C1_FirstCeilingCallsAdmittedNextRejected ==
    (hist.n >= 1 /\ hist.time - hist.first < RATE_LIMIT_WINDOW_MS) =>
        /\ hist.n <= MAX_REQUEST_PER_WINDOW => hist.ok
        /\ hist.n = MAX_REQUEST_PER_WINDOW + 1 => ~hist.ok

C1_Witness ==
    /\ hist.n = MAX_REQUEST_PER_WINDOW + 1
    /\ hist.time - hist.first < RATE_LIMIT_WINDOW_MS
    /\ ~hist.ok
    /\ hist.prevOk

\* C2: with several calls in flight on the one client, every interval of
\* one window length [t0, t0 + RATE_LIMIT_WINDOW_MS) holds at most
\* MAX_REQUEST_PER_WINDOW admissions, whatever the interleaving.
C2_CeilingHoldsInEveryWindow ==
    \A t0 \in (0 - RATE_LIMIT_WINDOW_MS)..MaxTime :
        Cardinality({i \in DOMAIN admitted :
                        t0 <= admitted[i] /\ admitted[i] < t0 + RATE_LIMIT_WINDOW_MS})
            <= MAX_REQUEST_PER_WINDOW

\* Two tasks met at the last free slot: one got it, the other was rejected.
C2_Witness ==
    \E p, q \in Procs :
        /\ p # q
        /\ task[p].pc = "in_flight"
        /\ task[q].pc = "local_wait"
        /\ task[q].wake = now + RETRY_AFTER_MS
        /\ Len(admitted) = MAX_REQUEST_PER_WINDOW
        /\ admitted[Len(admitted)] = now

\* C3: a call of _with_rate_limit that was never rejected locally and whose
\* operation raised HTTP 429 every time ends after exactly retries + 1
\* invocations and retries backoff sleeps, raising the last 429 failure.
C3_Always429RetriedExactlyRetriesTimes ==
    \A p \in Procs :
        LET t == task[p] IN
        (Exec(p) /\ t.rejects = 0 /\ t.opCalls >= 1 /\ t.throttled = t.opCalls) =>
            /\ t.opCalls <= t.retries0 + 1
            /\ t.pc = "done" =>
                /\ t.opCalls = t.retries0 + 1
                /\ t.backoffs = t.retries0
                /\ t.ret = HTTPStatusError(429, t.opCalls)
                /\ t.ret = t.opResult

C3_Witness ==
    \E p \in Procs :
        /\ Exec(p) /\ task[p].pc = "done"
        /\ task[p].retries0 = MaxRetries
        /\ task[p].rejects = 0
        /\ task[p].throttled = MaxRetries + 1
        /\ task[p].opCalls = MaxRetries + 1

\* C4: a call that was rejected locally k >= 1 times, was then admitted and
\* whose operation succeeded at once returns the operation's result after
\* one invocation, with `retries` untouched and `attempts` lowered by k.
C4_LocalWaitSpendsOnlyAttempts ==
    \A p \in Procs :
        LET t == task[p] IN
        (Exec(p) /\ t.pc = "done" /\ t.rejects >= 1 /\ t.throttled = 0
                 /\ t.opResult.kind = "ok") =>
            /\ t.ret = t.opResult
            /\ t.opCalls = 1
            /\ t.retries = t.retries0
            /\ t.attempts = t.attempts0 - t.rejects
            /\ t.rejects < t.attempts0

C4_Witness ==
    \E p \in Procs :
        /\ Exec(p) /\ task[p].pc = "done"
        /\ task[p].rejects >= 1
        /\ task[p].retries0 >= 1
        /\ task[p].ret = Returned(Data(<<>>))

\* C5: the two budgets are spent independently: the recursive call after a
\* local rejection lowers attempts by one and leaves retries, the one after
\* a 429 lowers retries by one and leaves attempts, nothing else changes
\* them; so a call invokes the operation at most retries + 1 times and
\* sleeps after at most `attempts` local rejections.
C5_BudgetStep(p) ==
    LET t == task[p]
        u == task'[p] IN
    (t.ctx = "execute" /\ u # t /\ u.pc # "idle") =>
        /\ t.pc = "local_wait" => (u.attempts = t.attempts - 1 /\ u.retries = t.retries)
        /\ t.pc = "upstream_wait" => (u.retries = t.retries - 1 /\ u.attempts = t.attempts)
        /\ t.pc = "in_flight" => (u.retries = t.retries /\ u.attempts = t.attempts)
        /\ u.rejects > t.rejects => u.backoffs = t.backoffs
        /\ u.backoffs > t.backoffs => u.rejects = t.rejects

C5_BudgetBounds ==
    \A p \in Procs :
        Exec(p) => /\ task[p].opCalls <= task[p].retries0 + 1
                   /\ task[p].rejects <= task[p].attempts0
                   /\ task[p].backoffs <= task[p].retries0

C5_BudgetsAreIndependent ==
    [][\A p \in Procs : C5_BudgetStep(p)]_vars /\ []C5_BudgetBounds

\* A call that went through both loops and used both budgets up.
C5_Witness ==
    \E p \in Procs :
        /\ Exec(p) /\ task[p].pc = "done"
        /\ task[p].rejects >= 1
        /\ task[p].backoffs >= 1
        /\ task[p].retries = 0

\* C6: a frame of _with_rate_limit entered with attempts <= 0 raises the
\* "Maximum rate limiting attempts exceeded" exception at once: the list of
\* timestamps is not touched, nothing is admitted, no sleep starts and the
\* operation is not invoked.
C6_EnteredStep(p) ==
    LET t == task[p]
        u == task'[p] IN
    (u.ctx = "execute" /\ u # t /\ u.attempts <= 0) =>
        /\ u.pc = "done"
        /\ u.ret = RateLimitExceeded
        /\ request_timestamps' = request_timestamps
        /\ admitted' = admitted
        /\ u.opCalls = (IF t.pc = "idle" THEN 0 ELSE t.opCalls)
        /\ u.rejects = (IF t.pc = "idle" THEN 0 ELSE t.rejects)

C6_NoAttemptsFailsImmediately == [][\A p \in Procs : C6_EnteredStep(p)]_vars

\* The call was entered with attempts = 0 while the window had a free slot.
C6_Witness ==
    \E p \in Procs :
        /\ Exec(p) /\ task[p].pc = "done"
        /\ task[p].attempts0 = 0
        /\ task[p].ret = RateLimitExceeded
        /\ request_timestamps = <<>>

\* C7: when a call of _check_rate_limit was rejected and the next call is
\* made once RATE_LIMIT_WINDOW_MS has passed since the oldest timestamp the
\* rejecting call left in the list, that next call is admitted.
C7_RejectedCallerAdmittedAfterWindow ==
    (~hist.prevOk /\ hist.time - hist.prevOldest >= RATE_LIMIT_WINDOW_MS) => hist.ok

C7_Witness ==
    /\ ~hist.prevOk
    /\ hist.prevSize = MAX_REQUEST_PER_WINDOW
    /\ hist.time - hist.prevOldest = RATE_LIMIT_WINDOW_MS
    /\ hist.ok

\* C8: a rejected call of _check_rate_limit appends nothing: the list after
\* it is the list before it without the timestamps that had left the
\* window, in the same order.
C8_RejectionRecordsNothing ==
    [][(now' = now /\ ~hist'.ok) =>
            /\ request_timestamps' = InWindow(request_timestamps, now)
            /\ admitted' = admitted]_vars

C8_Witness ==
    /\ ~hist.ok
    /\ hist.size = MAX_REQUEST_PER_WINDOW
    /\ hist.time > hist.oldest
    /\ request_timestamps # <<>>

\* C9: when the operation of an admitted attempt raises anything but an
\* HTTP 429, _with_rate_limit raises that failure in the same step: no
\* further invocation, no sleep, both budgets as they were.
C9_FailureStep(p) ==
    LET t == task[p]
        u == task'[p] IN
    (t.ctx = "execute" /\ t.pc = "in_flight" /\ u # t /\ u.opResult.kind # "ok"
        /\ ~(u.opResult.kind = "HTTPStatusError" /\ u.opResult.status = 429)) =>
        /\ u.pc = "done"
        /\ u.ret = u.opResult
        /\ u.ret.call = t.opCalls
        /\ u.opCalls = t.opCalls
        /\ u.backoffs = t.backoffs /\ u.rejects = t.rejects
        /\ u.retries = t.retries /\ u.attempts = t.attempts
        /\ request_timestamps' = request_timestamps

C9_OtherFailurePropagatesAtOnce == [][\A p \in Procs : C9_FailureStep(p)]_vars

C9_Witness ==
    \E p \in Procs :
        /\ Exec(p) /\ task[p].pc = "done"
        /\ task[p].ret = HTTPStatusError(500, 1)
        /\ task[p].retries = MaxRetries

\* C10: in advanced_search and get_question, when the answers endpoint (or,
\* with include_comments, the comments endpoint) fails for a question the
\* first request returned and min_score let through, the call fails with
\* the failure of that fetch.
HasQuestion(t) == \E i \in DOMAIN t.items : ~Filtered(t.items[i], t.min_score)

Kept(t) == SelectSeq(t.items, LAMBDA qd : ~Filtered(qd, t.min_score))

C11_OneResultPerQuestionInOrder ==
    \A p \in ClientProcs :
        LET t == task[p] IN
        /\ (t.ctx = "advanced_search" /\ ~t.include_comments) =>
                t.stage \notin {"question_comments", "answer_comments"}
        /\ (t.pc = "done" /\ t.ctx = "advanced_search" /\ HasQuestion(t)) =>
                /\ t.ret.kind \in {"ok", "HTTPStatusError", "RequestError", "Exception"}
                /\ t.ret.kind = "ok" =>
                    /\ Len(t.ret.value) = Len(Kept(t))
                    /\ \A i \in DOMAIN t.ret.value :
                        /\ t.ret.value[i].question.question_id = Kept(t)[i].question_id
                        /\ ~t.include_comments => ~t.ret.value[i].comments.present
                    /\ t.ret.value[Len(t.ret.value)].answers = t.answers

\* C12: a SearchResult returned with include_comments true has a comment
\* bundle whose answers mapping has exactly the ids of the result's answers
\* as keys (an answer without comments has the empty list), each key with the
\* comments fetched for that answer, and whose question entry is the list
\* fetched for the question.
ResultsOf(t) == IF t.ctx = "get_question" THEN <<t.ret.value>> ELSE t.ret.value

C13_Issued(t, u) ==
    /\ u.ctx \in {"advanced_search", "get_question"}
    /\ u.pc \notin {"idle", "done"}
    /\ (u.stage # t.stage \/ u.idx # t.idx \/ u.k # t.k)

C13_InOrder(t, u) ==
    CASE t.stage = "none" -> u.stage \in {"search", "question"}
      [] t.stage \in {"search", "question"} -> u.stage = "answers"
      [] t.stage = "answers" ->
            IF t.include_comments THEN u.stage = "question_comments" /\ u.idx = t.idx
            ELSE u.stage = "answers" /\ u.idx > t.idx
      [] t.stage = "question_comments" ->
            IF u.answers # <<>> THEN u.stage = "answer_comments" /\ u.k = 1 /\ u.idx = t.idx
            ELSE u.stage = "answers" /\ u.idx > t.idx
      [] t.stage = "answer_comments" ->
            IF t.k < Len(t.answers) THEN u.stage = "answer_comments" /\ u.k = t.k + 1 /\ u.idx = t.idx
            ELSE u.stage = "answers" /\ u.idx > t.idx
      [] OTHER -> FALSE

C13_Step(p) ==
    LET t == task[p]
        u == task'[p] IN
    /\ C13_Issued(t, u) => C13_InOrder(t, u)
    /\ (u.pc = "in_flight" /\ (t.pc # "in_flight" \/ C13_Issued(t, u))) =>
            admitted' = Append(admitted, now)
    /\ (u.pc = "done" /\ u.ctx \in {"advanced_search", "get_question"} /\ HasQuestion(u)) =>
            u.stage \notin {"search", "question"}

SearchParams(min_score, limit) ==
    {"site", "sort", "order", "q"} \cup (IF limit # 0 THEN {"pagesize"} ELSE {})

ScoreOf(qd) == IF qd.has_score THEN qd.score ELSE 0

C14_MinScoreFiltersLocally ==
    /\ \A ms \in {None, Some(0), Some(1)}, l \in 0..MaxItems :
            SearchParams(ms, l) = SearchParams(None, l)
    /\ \A p \in ClientProcs :
        LET t == task[p] IN
        (t.pc = "done" /\ t.ctx = "advanced_search"
            /\ t.ret.kind \notin {"HTTPStatusError", "RequestError", "Exception"}) =>
            /\ t.ret.kind = "ok"
            /\ Len(t.ret.value) = Len(Kept(t))
            /\ \A i \in DOMAIN t.ret.value :
                /\ t.ret.value[i].question.question_id = Kept(t)[i].question_id
                /\ t.ret.value[i].question.score = ScoreOf(Kept(t)[i])
                /\ t.min_score.some => t.ret.value[i].question.score >= t.min_score.v
            /\ \A i \in DOMAIN t.items :
                (t.min_score.some /\ ScoreOf(t.items[i]) < t.min_score.v) =>
                    \A j \in DOMAIN t.ret.value :
                        t.ret.value[j].question.question_id # t.items[i].question_id
                        \/ t.ret.value[j].question.score # ScoreOf(t.items[i])

\* C15: get_question(id) raises the ValueError that names id when the
\* response has no items (an empty list or no list), and returns one
\* SearchResult whose question has the requested id when the response holds
\* the item of that id.
FetchFailures == {"HTTPStatusError", "RequestError", "Exception"}

C15_NotFoundOrSingleResult ==
    \A p \in ClientProcs :
        LET t == task[p] IN
        (t.pc = "done" /\ t.ctx = "get_question" /\ t.ret.kind \notin FetchFailures) =>
            /\ t.items = <<>> => (t.ret.kind = "ValueError" /\ t.ret.id = t.question_id)
            /\ (t.items # <<>> /\ t.items[1].question_id = t.question_id) =>
                    /\ t.ret.kind = "ok"
                    /\ t.ret.value.question.question_id = t.question_id

\* ------------------------------------------------------------ cancellation
\* asyncio.CancelledError, raised at the await the task is suspended on
CancelledError ==
    [kind |-> "CancelledError", status |-> 0, id |-> 0, value |-> NoData, call |-> 0]

Cancel_takes_timestamp_back(p) ==
    /\ task[p].pc \in {"local_wait", "in_flight", "upstream_wait"}
    /\ task' = [task EXCEPT ![p] = [@ EXCEPT !.pc = "done", !.wake = 0, !.ret = CancelledError]]
    /\ request_timestamps' = SubSeq(request_timestamps, 1, Len(request_timestamps) - 1)
    /\ UNCHANGED <<now, down, hist, admitted>>

\* The host cancels task p while it is suspended in _with_rate_limit: in
\* `await asyncio.sleep(...)` (api.py:72, 80) or in `await func(...)`
\* (api.py:76).  CancelledError is no httpx.HTTPStatusError, the except
\* clause of api.py:77 does not catch it and no frame has a finally block.
Cancel(p) ==
    /\ task[p].pc \in {"local_wait", "in_flight", "upstream_wait"}
    /\ task' = [task EXCEPT ![p] = [@ EXCEPT !.pc = "done", !.wake = 0, !.ret = CancelledError]]
    /\ UNCHANGED <<now, request_timestamps, down, hist, admitted>>

NextCancel ==
    \/ Next
    \/ \E p \in Procs : Cancel(p)

SpecCancel == Init /\ [][NextCancel]_vars

\* C16: cancelling a call of _with_rate_limit during a sleep or during the
\* request leaves the limiter consistent: a task appends one timestamp in
\* each step that invokes the operation and none in any other step (going to
\* sleep, being cancelled, ending), the cancellation itself leaves the list
\* as it is, every window keeps at most MAX_REQUEST_PER_WINDOW admissions,
\* and a call entered after a cancellation has the budgets it was called
\* with and fresh counters.
C16_Ceiling(adm) ==
    \A t0 \in (0 - RATE_LIMIT_WINDOW_MS)..MaxTime :
        Cardinality({i \in DOMAIN adm : t0 <= adm[i] /\ adm[i] < t0 + RATE_LIMIT_WINDOW_MS})
            <= MAX_REQUEST_PER_WINDOW

C16_Step(p) ==
    LET t == task[p]
        u == task'[p]
        kept == InWindow(request_timestamps, now)
        invoked == u.pc # "idle" /\ u.opCalls = (IF t.pc = "idle" THEN 0 ELSE t.opCalls) + 1 IN
    (u # t) =>
        /\ invoked => (request_timestamps' = Append(kept, now) /\ u.pc = "in_flight")
        /\ ~invoked => request_timestamps' \in {request_timestamps, kept}
        /\ u.ret.kind = "CancelledError" /\ t.pc # "done" =>
                /\ request_timestamps' = request_timestamps
                /\ admitted' = admitted
                /\ u.opCalls = t.opCalls /\ u.rejects = t.rejects
        /\ t.pc = "idle" =>
                /\ u.retries = u.retries0 /\ u.attempts = u.attempts0
                /\ u.opCalls + u.rejects <= 1 /\ u.backoffs = 0 /\ u.throttled = 0
                /\ u.ret.kind # "CancelledError"
        /\ C16_Ceiling(admitted')

C16_CancellationKeepsLimiterConsistent == [][\A p \in Procs : C16_Step(p)]_vars

\* One task was cancelled in its 429 sleep after an invocation whose
\* timestamp is still in the list, the other was cancelled in its local
\* sleep having recorded nothing.
C16_Witness ==
    \E p, q \in Procs :
        /\ p # q
        /\ task[p].pc = "done" /\ task[p].ret = CancelledError
        /\ task[p].backoffs = 1 /\ task[p].opCalls = 1
        /\ task[q].pc = "done" /\ task[q].ret = CancelledError
        /\ task[q].rejects = 1 /\ task[q].opCalls = 0
        /\ Len(request_timestamps) = MAX_REQUEST_PER_WINDOW

\* ---------------------------------------------------- the tools of server.py
\* The clock of the tool specification runs long enough for a call to use up
\* the attempts budget of _with_rate_limit.
MaxToolTime == DefaultAttempts * RETRY_AFTER_MS

Formats == {"json", "markdown"}

\* search_by_query(query, min_score=ms, include_comments=inc,
\* response_format=fmt) up to the first await of api.search_by_query.
Tool_search_by_query(p, ms, inc, fmt) ==
    /\ task[p].pc = "idle"
    /\ Step(p, StartFetch([task[p] EXCEPT !.ctx = "advanced_search", !.include_comments = inc,
                                          !.min_score = ms, !.tool = "search_by_query",
                                          !.response_format = fmt],
                          "search", DefaultRetries, request_timestamps, now))

\* search_by_error(error_message, ...): the same call, with the tags made
\* from language and technologies.
Tool_search_by_error(p, ms, inc, fmt) ==
    /\ task[p].pc = "idle"
    /\ Step(p, StartFetch([task[p] EXCEPT !.ctx = "advanced_search", !.include_comments = inc,
                                          !.min_score = ms, !.tool = "search_by_error",
                                          !.response_format = fmt],
                          "search", DefaultRetries, request_timestamps, now))

\* get_question(question_id, include_comments=inc, respose_format=fmt)
Tool_get_question(p, qid, inc, fmt) ==
    /\ task[p].pc = "idle"
    /\ Step(p, StartFetch([task[p] EXCEPT !.ctx = "get_question", !.include_comments = inc,
                                          !.question_id = qid, !.tool = "get_question",
                                          !.response_format = fmt],
                          "question", DefaultRetries, request_timestamps, now))

\* analyze_stack_trace(stack_trace, language, ...): search_by_query with the
\* first line of the trace and min_score=0.
Tool_analyze_stack_trace(p, inc, fmt) ==
    /\ task[p].pc = "idle"
    /\ Step(p, StartFetch([task[p] EXCEPT !.ctx = "advanced_search", !.include_comments = inc,
                                          !.min_score = Some(0), !.tool = "analyze_stack_trace",
                                          !.response_format = fmt],
                          "search", DefaultRetries, request_timestamps, now))

\* A request of another invocation on the same client goes through
\* _check_rate_limit.
OtherRequest ==
    /\ LET c == check_rate_limit(request_timestamps, now) IN
         /\ request_timestamps' = c.ts
         /\ admitted' = IF c.ok THEN Append(admitted, now) ELSE admitted
    /\ UNCHANGED <<now, task, down, hist>>

TickTools ==
    /\ now < MaxToolTime
    /\ now' = now + 1
    /\ admitted' = SelectSeq(admitted, LAMBDA x : now' - x < RATE_LIMIT_WINDOW_MS)
    /\ UNCHANGED <<request_timestamps, task, down, hist>>

\* search_by_query with either value of include_comments, the other tools
\* with their default for it.
NextTools ==
    \/ TickTools
    \/ OtherRequest
    \/ \E p \in ClientProcs, ms \in {None, Some(1)}, inc \in BOOLEAN, fmt \in Formats :
            Tool_search_by_query(p, ms, inc, fmt)
    \/ \E p \in ClientProcs, ms \in {None, Some(1)}, fmt \in Formats :
            Tool_search_by_error(p, ms, FALSE, fmt)
    \/ \E p \in ClientProcs, qid \in QuestionIds, fmt \in Formats :
            Tool_get_question(p, qid, TRUE, fmt)
    \/ \E p \in ClientProcs, fmt \in Formats : Tool_analyze_stack_trace(p, TRUE, fmt)
    \/ \E p \in ClientProcs : \E o \in Responses(task[p].stage, task[p].opCalls) : Respond(p, o)
    \/ \E p \in ClientProcs : WakeLocal(p)
    \/ \E p \in ClientProcs : Wake429(p)
    \/ \E p \in ClientProcs : Return(p)

SpecTools == Init /\ [][NextTools]_vars

\* C17: a tool ends with the string format_response returned or with one
\* Error that carries the tool's label and the message of the failure,
\* whatever failed beneath it: the upstream request, the attempts budget of
\* _with_rate_limit, the lookup of the question, the mapping or the
\* formatter.  It has no outcome before it ends, and never a string together
\* with an error.
UpstreamKinds == {"HTTPStatusError", "RequestError"}

ToolArg(t) == IF t.tool = "get_question" THEN <<t.ret.value>> ELSE t.ret.value

C17_ToolReportsOneLabelledError ==
    \A p \in ClientProcs :
        LET t == task[p] IN
        /\ t.pc # "done" => t.out = NoToolOutcome
        /\ (t.pc = "done" /\ t.tool \in Tools) =>
            /\ t.out.kind \in {"string", "Error"}
            /\ t.out.kind = "string" =>
                /\ t.ret.kind = "ok"
                /\ t.out.label = "" /\ t.out.message.text = ""
                /\ format_response(ToolArg(t), t.response_format).ok
                /\ t.out.text = format_response(ToolArg(t), t.response_format).text
            /\ t.out.kind = "Error" =>
                /\ t.out.text = "" /\ t.out.body = <<>>
                /\ t.out.label = ToolLabel(t.tool) /\ t.out.label # ""
                /\ t.out.message.text # ""
            /\ t.attempts = 0 =>
                /\ t.out.kind = "Error"
                /\ t.out.message.text = "Maximum rate limiting attempts exceeded"
            /\ (t.attempts > 0 /\ t.opResult.kind \in UpstreamKinds) =>
                /\ t.out.kind = "Error"
                /\ t.out.message.text = t.opResult.kind
                /\ t.out.message.arg = t.opResult.status
            /\ (t.tool = "get_question" /\ t.attempts > 0 /\ t.opResult.kind = "ok"
                    /\ t.stage = "question" /\ t.items = <<>>) =>
                /\ t.out.kind = "Error"
                /\ t.out.message.text = "Question with ID {question_id} not found"
                /\ t.out.message.arg = t.question_id
            /\ t.ret.kind = "TypeError" =>
                /\ t.out.kind = "Error"
                /\ t.out.message = Str(TypeError)
            /\ (t.ret.kind = "ok" /\ ~format_response(ToolArg(t), t.response_format).ok) =>
                /\ t.out.kind = "Error"
                /\ t.out.message.text = format_response(ToolArg(t), t.response_format).text

\* get_question(2) found no item: the tool raised its labelled Error with
\* the message that names the id.
C17_Witness ==
    \E p \in ClientProcs :
        /\ task[p].pc = "done" /\ task[p].tool = "get_question"
        /\ task[p].ret.kind = "ValueError" /\ task[p].ret.id = 2
        /\ task[p].out.kind = "Error"
        /\ task[p].out.label = "Failed to fetch Stack Overflow question: "
        /\ task[p].out.message.arg = 2

\* C18: for an empty list of results (a search whose items are all below
\* min_score) the tool returns the text "No results found.", with
\* response_format "json" as with "markdown".
C18_EmptyListRendersNoResults ==
    \A p \in ClientProcs :
        LET t == task[p] IN
        (t.pc = "done" /\ t.tool \in Tools /\ t.ctx = "advanced_search" /\ t.ret.kind = "ok"
            /\ Len(t.ret.value) = 0) =>
            /\ t.out.kind = "string"
            /\ t.out.text = "No results found."

\* C19: a call that ended because the attempts budget ran out raises the
\* bare Exception of api.py:68 and the tool reports its message; a call
\* that ended because the request failed (an HTTP error status, the last 429
\* included, or any other failure of the request) raises that failure and
\* the tool reports that failure's message.  Neither is reported as the other.
C19_ExhaustionIsNotUpstreamFailure ==
    \A p \in ClientProcs :
        LET t == task[p] IN
        (t.pc = "done" /\ t.tool \in Tools) =>
            /\ t.attempts = 0 <=> t.ret.kind = "Exception"
            /\ t.ret.kind = "Exception" <=>
                    t.out.message.text = "Maximum rate limiting attempts exceeded"
            /\ t.ret.kind \in UpstreamKinds <=>
                    (t.attempts > 0 /\ t.opResult.kind \in UpstreamKinds)
            /\ t.ret.kind \in UpstreamKinds <=> t.out.message.text \in UpstreamKinds
            /\ t.ret.kind \in UpstreamKinds =>
                    /\ t.ret.kind = t.opResult.kind /\ t.ret.status = t.opResult.status
                    /\ t.out.message.text = t.ret.kind /\ t.out.message.arg = t.ret.status
            /\ t.out.kind = "Error"
                    => t.out.label = ToolLabel(t.tool)

\* Other requests kept the window full until the attempts were used up: the
\* tool reports the local exhaustion and has sent nothing upstream.
C19_Witness ==
    \E p \in ClientProcs :
        /\ task[p].pc = "done" /\ task[p].tool = "search_by_query"
        /\ task[p].rejects = DefaultAttempts
        /\ task[p].attempts = 0
        /\ task[p].opCalls = 0
        /\ task[p].ret.kind = "Exception"
        /\ task[p].out.kind = "Error"
        /\ task[p].out.message.text = "Maximum rate limiting attempts exceeded"

\* C20: the mappings of upstream records never raise: for every question
\* item a call received, and for every list of answer or comment items the
\* upstream can return, the constructor yields the entity, whose fields the
\* record lacks have their defaults ("" for strings, 0 for numbers, False
\* for flags, None for optional ids), and no call ends with a TypeError.
C20_MappingIsTotal ==
    \A p \in ClientProcs :
        LET t == task[p] IN
        (t.ctx \in {"advanced_search", "get_question"} /\ t.items # <<>>) =>
            /\ \A i \in DOMAIN t.items :
                LET q == StackOverflowQuestion(t.items[i]) IN
                /\ q.ok
                /\ q.obj.question_id = t.items[i].question_id
                /\ q.obj.score = ScoreOf(t.items[i])
                /\ q.obj.title = "" /\ q.obj.body = "" /\ q.obj.link = ""
                /\ q.obj.answer_count = 0 /\ q.obj.creation_date = 0
                /\ ~q.obj.is_answered
                /\ q.obj.accepted_answer_id = "None"
            /\ \A d \in Payloads("answers") : MapAnswers(Items(d)).ok
            /\ \A d \in Payloads("question_comments") : MapComments(Items(d)).ok
            /\ t.ret.kind # "TypeError"

\* ------------------------------------------------------------- termination
\* The clock of the termination specification stops at MaxLiveTime, late
\* enough for a call to take every sleep it can; a sleep that is pending
\* when the clock has stopped still ends.
MaxLiveTime == (MaxRetries + MaxAttempts) * RETRY_AFTER_MS + 1

TickLive ==
    /\ now < MaxLiveTime
    /\ now' = now + 1
    /\ admitted' = SelectSeq(admitted, LAMBDA x : now' - x < RATE_LIMIT_WINDOW_MS)
    /\ UNCHANGED <<request_timestamps, task, down, hist>>

\* asyncio.sleep of api.py:72 returns.
WakeLocalLive(p) ==
    /\ task[p].pc = "local_wait"
    /\ (now >= task[p].wake \/ now = MaxLiveTime)
    /\ Step(p, Resume(with_rate_limit(retry_after_local_wait(task[p]), request_timestamps, now),
                      now))

\* asyncio.sleep of api.py:80 returns.
Wake429Live_skips_admission(p) ==
    /\ task[p].pc = "upstream_wait"
    /\ (now >= task[p].wake \/ now = MaxLiveTime)
    /\ task' = [task EXCEPT ![p] = [retry_after_429(@) EXCEPT !.pc = "in_flight", !.wake = 0,
                                                              !.opCalls = @ + 1]]
    /\ UNCHANGED <<now, request_timestamps, down, hist, admitted>>

Wake429Live(p) ==
    /\ task[p].pc = "upstream_wait"
    /\ (now >= task[p].wake \/ now = MaxLiveTime)
    /\ Step(p, Resume(with_rate_limit(retry_after_429(task[p]), request_timestamps, now), now))

NextLive ==
    \/ TickLive
    \/ OtherRequest
    \/ \E p \in ClientProcs, r \in 0..MaxRetries, a \in 0..MaxAttempts : Execute(p, r, a)
    \/ \E p \in ClientProcs : \E o \in Responses(task[p].stage, task[p].opCalls) : Respond(p, o)
    \/ \E p \in ClientProcs : WakeLocalLive(p)
    \/ \E p \in ClientProcs : Wake429Live(p)
    \/ \E p \in ClientProcs : Return(p)

\* Time passes, every request ends and every sleep ends.
SpecLive ==
    /\ Init
    /\ [][NextLive]_vars
    /\ WF_vars(TickLive)
    /\ \A p \in ClientProcs :
        /\ WF_vars(\E o \in Responses(task[p].stage, task[p].opCalls) : Respond(p, o))
        /\ WF_vars(WakeLocalLive(p))
        /\ WF_vars(Wake429Live(p))

\* C21: every call of _with_rate_limit ends, with a result or an exception,
\* after at most retries + 1 invocations of the operation and at most
\* attempts + retries backoff sleeps, whatever the limiter and the operation
\* do.
C21_Bounds ==
    \A p \in ClientProcs :
        Exec(p) => /\ task[p].opCalls <= task[p].retries0 + 1
                   /\ task[p].rejects + task[p].backoffs
                        <= task[p].attempts0 + task[p].retries0
                   /\ task[p].pc = "done" => task[p].ret.kind # "none"

C21_ExecuteTerminates ==
    /\ []C21_Bounds
    /\ \A p \in ClientProcs : (task[p].pc # "idle") ~> (task[p].pc = "done")

\* The call used every sleep it has: attempts local rejections and retries
\* 429 backoffs.
C21_Witness ==
    \E p \in ClientProcs :
        /\ Exec(p) /\ task[p].pc = "done"
        /\ task[p].rejects = MaxAttempts /\ task[p].attempts0 = MaxAttempts
        /\ task[p].backoffs = MaxRetries /\ task[p].retries0 = MaxRetries

\* C22: a call of _with_rate_limit invokes the operation only in a step in
\* which _check_rate_limit has just admitted it, the retry after a 429
\* included: the step appends one timestamp, every other step of the call
\* appends none, so the call adds as many timestamps as it invokes the
\* operation, between 0 and retries + 1; the retry after a 429 goes through
\* the limiter again and can be rejected there.
C22_Step(p) ==
    LET t == task[p]
        u == task'[p]
        before == IF t.pc = "idle" THEN 0 ELSE t.opCalls IN
    (u # t /\ u.ctx = "execute") =>
        /\ u.opCalls \in {before, before + 1}
        /\ u.opCalls = before + 1 =>
                /\ u.pc = "in_flight"
                /\ Len(InWindow(request_timestamps, now)) < MAX_REQUEST_PER_WINDOW
                /\ request_timestamps' = Append(InWindow(request_timestamps, now), now)
                /\ admitted' = Append(admitted, now)
        /\ u.opCalls = before =>
                /\ Len(request_timestamps') <= Len(request_timestamps)
                /\ admitted' = admitted
                /\ u.pc # "in_flight"
        /\ (t.pc = "upstream_wait" /\ u.pc = "local_wait") =>
                /\ Len(request_timestamps') = MAX_REQUEST_PER_WINDOW
                /\ u.rejects = t.rejects + 1
        /\ u.opCalls <= u.retries0 + 1

C22_EachInvocationHasItsAdmission == [][\A p \in ClientProcs : C22_Step(p)]_vars

\* The retry after a 429 found the window full and was rejected.
C22_Witness ==
    \E p \in ClientProcs :
        /\ Exec(p) /\ task[p].pc = "local_wait"
        /\ task[p].opCalls = 1 /\ task[p].throttled = 1 /\ task[p].backoffs = 1
        /\ task[p].rejects = 1
        /\ task[p].wake = now + RETRY_AFTER_MS
        /\ Len(request_timestamps) = MAX_REQUEST_PER_WINDOW

\* -------------------------------------------------------------- local wait
\* The clock with sleeps that end when they are due: time does not pass a
\* pending wake-up.
TickExact ==
    /\ now < MaxLiveTime
    /\ \A p \in ClientProcs : task[p].pc \in {"local_wait", "upstream_wait"} => now < task[p].wake
    /\ now' = now + 1
    /\ admitted' = SelectSeq(admitted, LAMBDA x : now' - x < RATE_LIMIT_WINDOW_MS)
    /\ UNCHANGED <<request_timestamps, task, down, hist>>

\* A request that went through _check_rate_limit before the call under watch.
EarlierRequest ==
    /\ \A p \in ClientProcs : task[p].pc = "idle"
    /\ OtherRequest

NextWait ==
    \/ TickExact
    \/ EarlierRequest
    \/ \E p \in ClientProcs, r \in 0..MaxRetries, a \in 0..MaxAttempts : Execute(p, r, a)
    \/ \E p \in ClientProcs : \E o \in Responses(task[p].stage, task[p].opCalls) : Respond(p, o)
    \/ \E p \in ClientProcs : WakeLocal(p)
    \/ \E p \in ClientProcs : Wake429(p)
    \/ \E p \in ClientProcs : Return(p)

SpecWait == Init /\ [][NextWait]_vars

\* C23: with sleeps of exactly RETRY_AFTER_MS a call with attempts = A that
\* is rejected at t0 checks the limiter again at t0 + RETRY_AFTER_MS, ...,
\* t0 + (A - 1) * RETRY_AFTER_MS and at no other time; after the A-th
\* rejection it sleeps once more and raises without a check.  So a call that
\* finds the window full at t0 with the oldest timestamp younger than
\* RATE_LIMIT_WINDOW_MS - (A - 1) * RETRY_AFTER_MS is never admitted: it
\* raises the exhaustion failure without invoking the operation.
C23_Step(p) ==
    LET t == task[p]
        u == task'[p]
        t0 == t.wake - t.rejects * RETRY_AFTER_MS IN
    (u # t /\ u.ctx = "execute" /\ u.throttled = 0 /\ u.opCalls <= 1) =>
        /\ (t.pc = "idle" /\ u.pc = "local_wait") =>
                (u.wake = now + RETRY_AFTER_MS /\ u.rejects = 1)
        /\ t.pc = "local_wait" =>
                /\ now = t.wake
                /\ t.rejects = t.attempts0 - t.attempts + 1
                /\ now = t0 + t.rejects * RETRY_AFTER_MS
                /\ t.attempts = 1 =>
                        /\ u.pc = "done" /\ u.ret.kind = "Exception"
                        /\ u.opCalls = 0 /\ u.rejects = t.attempts0
                        /\ request_timestamps' = request_timestamps
                /\ t.attempts > 1 =>
                        /\ u.pc \in {"local_wait", "in_flight"}
                        /\ u.pc = "local_wait" =>
                                (u.wake = now + RETRY_AFTER_MS /\ u.rejects = t.rejects + 1)
                        /\ u.pc = "in_flight" =>
                                /\ Len(request_timestamps) = MAX_REQUEST_PER_WINDOW
                                /\ t0 - request_timestamps[1] >=
                                    RATE_LIMIT_WINDOW_MS - (t.attempts0 - 1) * RETRY_AFTER_MS

C24_Below(qd, ms) == ms.some /\ ScoreOf(qd) < ms.v

C24_Step(p) ==
    LET t == task[p]
        u == task'[p] IN
    (u # t /\ u.ctx = "advanced_search") =>
        /\ (u.stage # "search" /\ u.pc \notin {"idle", "done"}) =>
                /\ u.idx \in DOMAIN u.items
                /\ ~C24_Below(u.items[u.idx], u.min_score)
        /\ (t.stage = "search" /\ t.pc = "in_flight" /\ u.pc \notin {"in_flight", "upstream_wait"}
                /\ u.opResult.kind = "ok") =>
                /\ admitted' # admitted =>
                        /\ u.stage = "answers"
                        /\ ~C24_Below(u.items[u.idx], u.min_score)
                        /\ \A j \in 1..(u.idx - 1) : C24_Below(u.items[j], u.min_score)
                /\ (\A j \in DOMAIN u.items : C24_Below(u.items[j], u.min_score)) =>
                        /\ u.pc = "done" /\ u.ret.kind = "ok" /\ Len(u.ret.value) = 0
                        /\ u.stage = "search"
                        /\ request_timestamps' = request_timestamps
                        /\ admitted' = admitted

C24_FilteredQuestionCostsNothing == [][\A p \in ClientProcs : C24_Step(p)]_vars

\* The search returned an item below the threshold: the call is over with
\* the empty list and one invocation, the search request.
C24_Witness ==
    \E p \in ClientProcs :
        /\ task[p].pc = "done" /\ task[p].ctx = "advanced_search"
        /\ task[p].items # <<>>
        /\ \A j \in DOMAIN task[p].items : C24_Below(task[p].items[j], task[p].min_score)
        /\ task[p].ret.kind = "ok"
        /\ task[p].stage = "search" /\ task[p].opCalls = 1
        /\ Len(request_timestamps) = 1

\* C25: analyze_stack_trace searches with min_score = 0 whatever its
\* arguments, so no question with a negative score is among its results or
\* in its text; search_by_query and search_by_error called without
\* min_score hand every upstream question to the formatter, those with a
\* negative score included.
C25_AnalyzeFiltersNegativeScores ==
    \A p \in ClientProcs :
        LET t == task[p] IN
        /\ t.tool = "analyze_stack_trace" =>
            /\ t.min_score = Some(0)
            /\ (t.pc = "done" /\ t.ret.kind = "ok") =>
                    \A i \in DOMAIN t.ret.value : t.ret.value[i].question.score >= 0
            /\ (t.pc = "done" /\ t.out.kind = "string") =>
                    \A i \in DOMAIN t.out.body : t.out.body[i].score >= 0
        /\ (t.pc = "done" /\ t.tool \in {"search_by_query", "search_by_error"}
                /\ ~t.min_score.some /\ t.ret.kind \notin FetchFailures) =>
            /\ t.ret.kind = "ok"
            /\ Len(t.ret.value) = Len(t.items)
            /\ \A i \in DOMAIN t.items :
                    t.ret.value[i].question.score = ScoreOf(t.items[i])

====
